---- MODULE Spec2Model ----
(***************************************************************************)
(* Model of vscode-checkstyle's download coordinator                       *)
(* (server/src/downloadCheckstyle.ts) and of the controller's              *)
(* configuration resolver (the Configuration namespace of the extension).  *)
(*                                                                         *)
(* Download side: one invocation of downloadCheckstyle, as the steps of    *)
(* its async body and of the three stream handlers it registers.  The     *)
(* transfer stream (request + request-progress) and the file system are   *)
(* the environment: until its 'end', which follows the last chunk of the  *)
(* body, the stream may deliver 'data', 'progress' and 'error' in any     *)
(* order (the handlers are never removed and carry no guard), and remove  *)
(* and rename may succeed or fail.                                         *)
(***************************************************************************)
EXTENDS Naturals, Sequences, FiniteSets

\* ------------------------------------------------------------------ bounds
\* Number of chunks the artifact body is delivered in.
ArtifactSize == 2
\* Most 'progress' events one transfer delivers.
MaxProgress == 2
\* Most 'error' events one transfer delivers.
MaxErrors == 1
\* Longest item sequence of a configuration query.
MaxItems == 2
\* Most command runs in one behaviour.
MaxCommands == 2
\* Most changes of the configuration store in one behaviour.
MaxChanges == 2
\* Most calls of deactivate in one behaviour.
MaxDeactivations == 2
\* Most download tasks the worker runs one after the other.
MaxTasks == 2

\* ------------------------------------------------------- program constants
\* response.statusCode === 302
HttpFound == 302

VARIABLES
    \* downloadCheckstyle (worker side)
    pc,              \* position in the async body of downloadCheckstyle
    result,          \* settlement of the promise downloadCheckstyle returns
    version,         \* argument `version`
    textDocumentUri, \* argument `textDocumentUri`
    sent,            \* connection.sendNotification calls, in order
    tempFile,        \* file at <downloadPath>/<checkstyleJar>.download
    finalFile,       \* file at <downloadPath>/<checkstyleJar>
    tempAtStart,     \* tempFile when downloadCheckstyle was invoked
    finalAtStart,    \* finalFile when downloadCheckstyle was invoked
    wsState,         \* createWriteStream(tempFilePath): "none" | "opening" | "open"
    fdPath,          \* path under which the write stream's open file now lives
    received,        \* chunks the stream has handed to pipe()
    written,         \* chunks the write stream has flushed to its file
    progressCount,   \* 'progress' events delivered
    errorCount,      \* 'error' events delivered
    ended,           \* 'end' event delivered
    endPc,           \* position in the async 'end' handler
    probe,           \* what the probe's callback was called with
    \* Configuration.computeConfiguration (controller side)
    params,          \* the ConfigurationParams of the query
    store,           \* workspace configuration store, per scope
    configResult,    \* what computeConfiguration returned
    \* initCommand (controller side)
    invocations,     \* the runs of registered commands, each with its position
    outputChannel,   \* outputChannel.appendLine calls, in order
    errorMessages,   \* window.showErrorMessage calls, in order
    \* activate / deactivate (controller side)
    activatePc,      \* position in the async body of activate
    client,          \* the module's `client`: undefined, or the LanguageClient's state
    statusController,       \* the module's `statusController`
    configurationListener,  \* Configuration's `configurationListener`
    readyHook,       \* the callback given to client.onReady().then
    clientListeners, \* registerClientListener has run
    toWorker,        \* client.sendNotification calls, in order
    changes,         \* changes of the configuration store so far
    deactivations,   \* calls of deactivate so far
    deactivated,     \* deactivate has run on a session that had a client
    \* registerClientListener (controller side) and the worker it listens to
    workerTask,      \* the worker's download task: number, phase, events sent
    inbox,           \* notifications the worker has sent, not yet dispatched
    delivered,       \* notifications dispatched by the client, in order
    statusHandler,   \* progress indicator of the registered DownloadStatus handler, 0: none
    progress,        \* window.withProgress indicators, in the order opened
    warnings,        \* window.showWarningMessage(error text) calls awaited
    prompts,         \* the VersionInvalid prompts and their answers
    executed         \* commands.executeCommand calls, in order

dlVars == <<pc, result, version, textDocumentUri, sent, tempFile, finalFile,
            tempAtStart, finalAtStart, wsState, fdPath, received, written,
            progressCount, errorCount, ended, endPc, probe>>
cfgVars == <<params, store, configResult>>
cmdVars == <<invocations, outputChannel, errorMessages>>
\* The controller's state outside the configuration resolver.
sessVars == <<activatePc, client, statusController, configurationListener, readyHook,
              clientListeners, toWorker, changes, deactivations, deactivated>>
cliVars == <<workerTask, inbox, delivered, statusHandler, progress, warnings,
             prompts, executed>>
ctlVars == <<cmdVars, sessVars, cliVars>>
vars == <<dlVars, cfgVars, ctlVars>>

\* ------------------------------------------------------------- file system
NoFile == [exists |-> FALSE, bytes |-> <<>>]
File(bs) == [exists |-> TRUE, bytes |-> bs]
\* A byte left by an earlier, interrupted attempt.
StaleByte == <<"stale", 0>>
\* The bytes of the artifact, in order: chunk i of this transfer carries Artifact[i].
Artifact == [i \in 1..ArtifactSize |-> <<"new", i>>]
StaleTemp == File(<<StaleByte>>)
Complete(f) == f.exists /\ f.bytes = Artifact

\* ------------------------------------------------------------ notifications
Notif(method, status, percent, uri, cause, link) ==
    [method |-> method, status |-> status, percent |-> percent,
     uri |-> uri, cause |-> cause, link |-> link]
None == "-"
NoLink == <<>>

Versions == {"8.0", "999.0"}
Uris == {"file:///a/A.java", "file:///b/B.java"}

\* const checkstyleJar = `checkstyle-${version}-all.jar`
checkstyleJar(v) == <<"checkstyle-", v, "-all.jar">>
\* const downloadLink = `https://sourceforge.net/.../${version}/${checkstyleJar}/download`
downloadLink(v) ==
    <<"https://sourceforge.net/projects/checkstyle/files/checkstyle/", v, "/">>
        \o checkstyleJar(v) \o <<"/download">>

ShowMessageError ==
    Notif("window/showMessage", None, 0, None,
          "Failed to download CheckStyle, please try again later.", NoLink)
VersionInvalid(uri) == Notif("checkstyle/versionInvalid", None, 0, uri, None, NoLink)
DownloadStart == Notif("checkstyle/downloadStart", None, 0, None, None, NoLink)
Downloading(p) == Notif("checkstyle/downloadStatus", "downloading", p, None, None, NoLink)
DownloadError(cause, link) == Notif("checkstyle/downloadStatus", "error", 0, None, cause, link)
Finished == Notif("checkstyle/downloadStatus", "finished", 0, None, None, NoLink)

\* ------------------------------------------------------------------- probe
\* The arguments request hands to the probe's callback.
NoResponse == [present |-> FALSE, statusCode |-> 0]
Response(code) == [present |-> TRUE, statusCode |-> code]
StatusCodes == {200, 301, HttpFound, 404}
ProbeResponses == {NoResponse} \cup {Response(c) : c \in StatusCodes}
NoProbe == [done |-> FALSE, error |-> FALSE, response |-> NoResponse]

\* Faulty variant: the transport error is ignored when a response came with it.
requestForVersion_IgnoresError(error, response) ==
    IF ~response.present THEN "Error"
    ELSE IF response.statusCode = HttpFound THEN "Found" ELSE "Others"

\* Faulty variant: every redirect counts as found.
requestForVersion_AnyRedirect(error, response) ==
    IF ~response.present \/ error THEN "Error"
    ELSE IF response.statusCode \in {301, HttpFound} THEN "Found" ELSE "Others"

requestForVersion(error, response) ==
    IF ~response.present \/ error THEN "Error"
    ELSE IF response.statusCode = HttpFound THEN "Found" ELSE "Others"

\* ------------------------------------------------------ downloadCheckstyle
\* resolve()/return: a promise settles once, later settlements are ignored.
Settle(r) == IF result = "pending" THEN r ELSE result

InitDownload ==
    /\ pc = "idle"
    /\ result = "none"
    /\ version = None
    /\ textDocumentUri = None
    /\ sent = <<>>
    /\ tempFile \in {NoFile, StaleTemp}
    /\ finalFile \in {NoFile, File(Artifact)}
    /\ tempAtStart = tempFile
    /\ finalAtStart = finalFile
    /\ wsState = "none"
    /\ fdPath = None
    /\ received = 0
    /\ written = 0
    /\ progressCount = 0
    /\ errorCount = 0
    /\ ended = FALSE
    /\ endPc = "none"
    /\ probe = NoProbe

streamVars == <<wsState, fdPath, received, written, progressCount, errorCount, ended, endPc>>
fsVars == <<tempFile, finalFile>>
argVars == <<version, textDocumentUri, tempAtStart, finalAtStart>>

\* downloadCheckstyle(connection, downloadPath, version, textDocumentUri) is called:
\* the probe request is issued and the body awaits requestForVersion.
Invoke ==
    /\ pc = "idle"
    /\ \E v \in Versions, u \in Uris :
        /\ version' = v
        /\ textDocumentUri' = u
    /\ pc' = "probe"
    /\ result' = "pending"
    /\ UNCHANGED <<sent, fsVars, tempAtStart, finalAtStart, streamVars, probe, cfgVars, ctlVars>>

\* Faulty variant: the stale temp file is cleared away before the probe's answer
\* is looked at.
ProbeCallback_CleansFirst ==
    /\ pc = "probe"
    /\ \E error \in BOOLEAN, response \in ProbeResponses :
        /\ probe' = [done |-> TRUE, error |-> error, response |-> response]
        /\ LET rt == requestForVersion(error, response) IN
            /\ pc' = IF rt = "Found" THEN "pathExists" ELSE "done"
            /\ sent' = CASE rt = "Found" -> sent
                         [] rt = "Error" -> Append(sent, ShowMessageError)
                         [] rt = "Others" -> Append(sent, VersionInvalid(textDocumentUri))
            /\ result' = IF rt = "Found" THEN result ELSE Settle("false")
    /\ tempFile' = NoFile
    /\ UNCHANGED <<argVars, finalFile, streamVars, cfgVars, ctlVars>>

\* The probe's callback runs with (_error, response) and the body resumes at the
\* switch on the ResponseType.
ProbeCallback ==
    /\ pc = "probe"
    /\ \E error \in BOOLEAN, response \in ProbeResponses :
        /\ probe' = [done |-> TRUE, error |-> error, response |-> response]
        /\ LET rt == requestForVersion(error, response) IN
            /\ pc' = IF rt = "Found" THEN "pathExists" ELSE "done"
            /\ sent' = CASE rt = "Found" -> sent
                         [] rt = "Error" -> Append(sent, ShowMessageError)
                         [] rt = "Others" -> Append(sent, VersionInvalid(textDocumentUri))
            /\ result' = IF rt = "Found" THEN result ELSE Settle("false")
    /\ UNCHANGED <<argVars, fsVars, streamVars, cfgVars, ctlVars>>

\* The executor of the promise at line 40: DownloadStart is sent, the transfer is
\* requested, the three handlers are registered and the stream is piped to
\* createWriteStream(tempFilePath), whose open is still to happen.
StartTransfer ==
    /\ sent' = Append(sent, DownloadStart)
    /\ wsState' = "opening"
    /\ pc' = "stream"

\* Faulty variant: the stale temp file is never looked for.
CheckTempFile_NoCleanup ==
    /\ pc = "pathExists"
    /\ StartTransfer
    /\ UNCHANGED <<result, argVars, fsVars, probe, cfgVars, ctlVars,
                   fdPath, received, written, progressCount, errorCount, ended, endPc>>

\* await pathExists(tempFilePath)
CheckTempFile ==
    /\ pc = "pathExists"
    /\ IF tempFile.exists
         THEN /\ pc' = "remove"
              /\ UNCHANGED <<sent, wsState>>
         ELSE StartTransfer
    /\ UNCHANGED <<result, argVars, fsVars, probe, cfgVars, ctlVars,
                   fdPath, received, written, progressCount, errorCount, ended, endPc>>

\* await remove(tempFilePath) succeeds.
RemoveTempFileOk ==
    /\ pc = "remove"
    /\ tempFile' = NoFile
    /\ StartTransfer
    /\ UNCHANGED <<result, argVars, finalFile, probe, cfgVars, ctlVars,
                   fdPath, received, written, progressCount, errorCount, ended, endPc>>

\* await remove(tempFilePath) throws: nothing catches it, the async function rejects.
RemoveTempFileFail ==
    /\ pc = "remove"
    /\ pc' = "done"
    /\ result' = Settle("rejected")
    /\ UNCHANGED <<sent, argVars, fsVars, streamVars, probe, cfgVars, ctlVars>>

\* ------------------------------------------------------- transfer stream
\* The error objects the stream may raise: with a code, or with a message only.
StreamErrors == {[code |-> "ESOCKETTIMEDOUT", text |-> "Error: ESOCKETTIMEDOUT"],
                 [code |-> "", text |-> "Error: aborted"]}
\* err['code'] || err.toString()
ErrorCause(err) == IF err.code # "" THEN err.code ELSE err.text
\* Math.round(state['percent'] * 100), state.percent being transferred / total.
Percent(transferred) == (200 * transferred + ArtifactSize) \div (2 * ArtifactSize)

\* The file the write stream's descriptor refers to, and its replacement.
WriteTo(path, f) ==
    /\ tempFile' = IF path = "temp" THEN f ELSE tempFile
    /\ finalFile' = IF path = "final" THEN f ELSE finalFile
FileAt(path) == IF path = "temp" THEN tempFile ELSE finalFile

\* createWriteStream's open completes: flags 'w' create the file or truncate it.
OpenWriteStream ==
    /\ wsState = "opening"
    /\ wsState' = "open"
    /\ fdPath' = "temp"
    /\ tempFile' = File(<<>>)
    /\ UNCHANGED <<pc, result, sent, argVars, finalFile, probe, cfgVars, ctlVars,
                   received, written, progressCount, errorCount, ended, endPc>>

\* 'data': pipe() hands the next chunk of the body to the write stream, which
\* buffers it.
OnData ==
    /\ pc = "stream"
    /\ ~ended
    /\ received < ArtifactSize
    /\ received' = received + 1
    /\ UNCHANGED <<pc, result, sent, argVars, fsVars, probe, cfgVars, ctlVars,
                   wsState, fdPath, written, progressCount, errorCount, ended, endPc>>

\* The write stream flushes its oldest buffered chunk to the file it has open,
\* wherever a rename has moved that file to.
FlushWrite ==
    /\ wsState = "open"
    /\ written < received
    /\ WriteTo(fdPath, File(Append(FileAt(fdPath).bytes, Artifact[written + 1])))
    /\ written' = written + 1
    /\ UNCHANGED <<pc, result, sent, argVars, probe, cfgVars, ctlVars,
                   wsState, fdPath, received, progressCount, errorCount, ended, endPc>>

\* .on('progress', ...)
OnProgress ==
    /\ pc = "stream"
    /\ ~ended
    /\ progressCount < MaxProgress
    /\ progressCount' = progressCount + 1
    /\ sent' = Append(sent, Downloading(Percent(received)))
    /\ UNCHANGED <<pc, result, argVars, fsVars, probe, cfgVars, ctlVars,
                   wsState, fdPath, received, written, errorCount, ended, endPc>>

\* .on('error', ...)
OnError ==
    /\ pc = "stream"
    /\ ~ended
    /\ errorCount < MaxErrors
    /\ errorCount' = errorCount + 1
    /\ \E err \in StreamErrors :
        sent' = Append(sent, DownloadError(ErrorCause(err), downloadLink(version)))
    /\ result' = Settle("false")
    /\ UNCHANGED <<pc, argVars, fsVars, probe, cfgVars, ctlVars,
                   wsState, fdPath, received, written, progressCount, ended, endPc>>

\* .on('end', async () => { await rename(...) ...: 'end' follows the last chunk of
\* the body; the handler starts the rename and suspends.  The chunks are by then
\* in the write stream's hands, not necessarily in the file.
OnEnd ==
    /\ pc = "stream"
    /\ ~ended
    /\ received = ArtifactSize
    /\ ended' = TRUE
    /\ endPc' = "rename"
    /\ UNCHANGED <<pc, result, sent, argVars, fsVars, probe, cfgVars, ctlVars,
                   wsState, fdPath, received, written, progressCount, errorCount>>

\* rename(tempFilePath, <downloadPath>/<checkstyleJar>) succeeds: the temp file,
\* with whatever has been flushed to it so far, now is the final file; an open
\* descriptor follows it.
RenameOk ==
    /\ endPc = "rename"
    /\ tempFile.exists
    /\ finalFile' = tempFile
    /\ tempFile' = NoFile
    /\ fdPath' = IF fdPath = "temp" THEN "final" ELSE fdPath
    /\ endPc' = "renamed"
    /\ UNCHANGED <<pc, result, sent, argVars, probe, cfgVars, ctlVars,
                   wsState, received, written, progressCount, errorCount, ended>>

\* Faulty variant: a failed rename is swallowed and the handler carries on.
RenameFail_Swallowed ==
    /\ endPc = "rename"
    /\ endPc' = "renamed"
    /\ UNCHANGED <<pc, result, sent, argVars, fsVars, probe, cfgVars, ctlVars,
                   wsState, fdPath, received, written, progressCount, errorCount, ended>>

\* rename throws (no temp file, or the file system refuses): the async handler
\* rejects, nothing handles the rejection, the rest of the handler never runs.
RenameFail ==
    /\ endPc = "rename"
    /\ endPc' = "threw"
    /\ UNCHANGED <<pc, result, sent, argVars, fsVars, probe, cfgVars, ctlVars,
                   wsState, fdPath, received, written, progressCount, errorCount, ended>>

\* The 'end' handler resumes after the rename: 'finished' is sent, resolve(true).
EndFinished ==
    /\ endPc = "renamed"
    /\ endPc' = "done"
    /\ sent' = Append(sent, Finished)
    /\ result' = Settle("true")
    /\ UNCHANGED <<pc, argVars, fsVars, probe, cfgVars, ctlVars,
                   wsState, fdPath, received, written, progressCount, errorCount, ended>>

\* ------------------------------------------ Configuration.computeConfiguration
\* A value a JavaScript property may lack.
Undefined == "(undefined)"
\* if (x): undefined and the empty string are falsy.
Truthy(x) == x # Undefined /\ x # ""

SectionValues == {Undefined, "", "java"}
ScopeUriValues == {Undefined, "", "file:///a", "file:///b"}
ConfigurationItems == [section : SectionValues, scopeUri : ScopeUriValues]
ItemSeqs == UNION {[1..n -> ConfigurationItems] : n \in 0..MaxItems}
\* params.items is an array, or is missing.
NoItems == [hasItems |-> FALSE, items |-> <<>>]
Items(is) == [hasItems |-> TRUE, items |-> is]
ConfigurationParams == {NoItems} \cup {Items(is) : is \in ItemSeqs}

\* The scopes workspace.getConfiguration resolves for.
WorkspaceScope == <<"workspace">>
\* client.protocol2CodeConverter.asUri(scopeUri)
asUri(scopeUri) == <<"resource", scopeUri>>
Scopes == {WorkspaceScope, asUri("file:///a"), asUri("file:///b")}

\* What the store holds for the 'checkstyle' section of one scope.
Unset == [set |-> FALSE, value |-> ""]
Set(v) == [set |-> TRUE, value |-> v]
RawSettings ==
    { [autocheck |-> Unset, version |-> Unset, configurationFile |-> Unset,
       propertiesPath |-> Unset],
      [autocheck |-> Set("true"), version |-> Set("8.1"),
       configurationFile |-> Set("sun_checks"), propertiesPath |-> Set("/p.properties")],
      [autocheck |-> Unset, version |-> Set("8.2"), configurationFile |-> Unset,
       propertiesPath |-> Unset] }
Stores == [Scopes -> RawSettings]

\* config.get(key, defaultValue) / config.get(key)
Get(config, key, defaultValue) ==
    IF config[key].set THEN config[key].value ELSE defaultValue

\* The element pushed for an item that is resolved, from the configuration of its scope.
Settings(config) ==
    [kind |-> "settings",
     autocheck |-> Get(config, "autocheck", "false"),
     version |-> Get(config, "version", "8.0"),
     configurationFile |-> Get(config, "configurationFile", "google_checks"),
     propertiesPath |-> Get(config, "propertiesPath", Undefined)]
NullElement ==
    [kind |-> "null", autocheck |-> "", version |-> "", configurationFile |-> "",
     propertiesPath |-> ""]

\* workspace.getConfiguration('checkstyle', resource) / getConfiguration('checkstyle')
getConfiguration(st, scope) == st[scope]

\* Faulty variant: the scope of the item is ignored.
ResolveItem_IgnoresScope(st, item) ==
    IF Truthy(item.section) THEN NullElement
    ELSE Settings(getConfiguration(st, WorkspaceScope))

\* One pass of the loop body: what is pushed for `item`.
ResolveItem(st, item) ==
    IF Truthy(item.section) THEN NullElement
    ELSE IF Truthy(item.scopeUri)
         THEN Settings(getConfiguration(st, asUri(item.scopeUri)))
         ELSE Settings(getConfiguration(st, WorkspaceScope))

\* for (const item of params.items) { ... result.push(...) }
RECURSIVE Loop(_, _, _)
Loop(st, items, acc) ==
    IF items = <<>> THEN acc
    ELSE Loop(st, Tail(items), Append(acc, ResolveItem(st, Head(items))))

\* Faulty variant: an item with a section is skipped instead of answered with null.
RECURSIVE LoopSkipping(_, _, _)
LoopSkipping(st, items, acc) ==
    IF items = <<>> THEN acc
    ELSE IF Truthy(Head(items).section) THEN LoopSkipping(st, Tail(items), acc)
    ELSE LoopSkipping(st, Tail(items), Append(acc, ResolveItem(st, Head(items))))
computeConfiguration_SkipsSections(st, p) ==
    IF ~p.hasItems THEN [kind |-> "null", elems |-> <<>>]
    ELSE [kind |-> "array", elems |-> LoopSkipping(st, p.items, <<>>)]

\* if (!params.items) return null: an array, empty or not, is truthy.
computeConfiguration(st, p) ==
    IF ~p.hasItems THEN [kind |-> "null", elems |-> <<>>]
    ELSE [kind |-> "array", elems |-> Loop(st, p.items, <<>>)]

Pending == [kind |-> "pending", elems |-> <<>>]

InitConfigIdle ==
    /\ params = NoItems
    /\ store = [s \in Scopes |-> CHOOSE r \in RawSettings : ~r.version.set]
    /\ configResult = Pending

\* The worker's workspace/configuration request reaches the middleware.
InitConfig ==
    /\ params \in ConfigurationParams
    /\ store \in Stores
    /\ configResult = Pending

\* The middleware answers the request.
ComputeConfiguration ==
    /\ configResult = Pending
    /\ configResult' = computeConfiguration(store, params)
    /\ UNCHANGED <<params, store, dlVars, ctlVars>>

InitDownloadIdle ==
    /\ InitDownload
    /\ tempFile = NoFile
    /\ finalFile = NoFile

\* ------------------------------------------------------------ initCommand
CommandIds == {"checkstyle.checkCodeWithCheckstyle", "checkstyle.setVersion",
               "checkstyle.setConfigurationFile", "checkstyle.setPropertyFile",
               "checkstyle.setAutocheck"}
\* What a callback may throw (or reject with): the sentinel, an Error with a
\* message, a string, an object whose message is no string, undefined, null.
\* `message` is the value's message when it is a string, `str` its toString().
NoThrow == [kind |-> "none", message |-> "", str |-> ""]
ThrownValues ==
    { [kind |-> "UserCancelledError", message |-> "Operation cancelled.",
       str |-> "Error: Operation cancelled."],
      [kind |-> "Error", message |-> "spawn java ENOENT",
       str |-> "Error: spawn java ENOENT"],
      [kind |-> "string", message |-> "", str |-> "no workspace"],
      [kind |-> "object", message |-> "", str |-> "[object Object]"],
      [kind |-> "undefined", message |-> "", str |-> ""],
      [kind |-> "null", message |-> "", str |-> ""] }

\* typeof err.message === 'string'
HasStringMessage(err) == err.kind \in {"UserCancelledError", "Error"}
\* Reading a property of undefined or null throws a TypeError.
Nullish(err) == err.kind \in {"undefined", "null"}

\* getErrorMessage(err): the text, or the TypeError raised by err.message.
getErrorMessage(err) ==
    IF Nullish(err) THEN [threw |-> TRUE, text |-> <<>>]
    ELSE [threw |-> FALSE,
          text |-> <<"Checkstyle Error: - '",
                     IF HasStringMessage(err) THEN err.message ELSE err.str, "'">>]

\* Faulty variant: the sentinel is not told apart.
IsUserCancelled_Never(error) == FALSE

\* error instanceof UserCancelledError
IsUserCancelled(error) == error.kind = "UserCancelledError"

Invocation(id) == [id |-> id, pc |-> "callback", thrown |-> NoThrow, outcome |-> "pending"]

InitCommandIdle ==
    /\ invocations = <<>>
    /\ outputChannel = <<>>
    /\ errorMessages = <<>>

\* A registered command is run: the wrapper awaits callback(...args).
RunCommand ==
    /\ Len(invocations) < MaxCommands
    /\ \E id \in CommandIds : invocations' = Append(invocations, Invocation(id))
    /\ UNCHANGED <<outputChannel, errorMessages, dlVars, cfgVars, sessVars, cliVars>>

\* The callback completes: so does the command.
CallbackReturns ==
    \E i \in 1..Len(invocations) :
        /\ invocations[i].pc = "callback"
        /\ invocations' = [invocations EXCEPT ![i].pc = "done", ![i].outcome = "completed"]
        /\ UNCHANGED <<outputChannel, errorMessages, dlVars, cfgVars, sessVars, cliVars>>

\* The callback throws: the catch block runs up to its await (or to its end).
CallbackThrows ==
    \E i \in 1..Len(invocations), error \in ThrownValues :
        /\ invocations[i].pc = "callback"
        /\ IF IsUserCancelled(error)
             THEN /\ invocations' = [invocations EXCEPT ![i].pc = "done",
                                        ![i].thrown = error, ![i].outcome = "completed"]
                  /\ UNCHANGED <<outputChannel, errorMessages>>
             ELSE LET errMsg == getErrorMessage(error) IN
                  IF errMsg.threw
                    THEN /\ invocations' = [invocations EXCEPT ![i].pc = "done",
                                               ![i].thrown = error, ![i].outcome = "threw"]
                         /\ UNCHANGED <<outputChannel, errorMessages>>
                    ELSE /\ invocations' = [invocations EXCEPT ![i].pc = "showing",
                                               ![i].thrown = error]
                         /\ outputChannel' = Append(outputChannel, [run |-> i, text |-> errMsg.text])
                         /\ errorMessages' = Append(errorMessages, [run |-> i, text |-> errMsg.text])
        /\ UNCHANGED <<dlVars, cfgVars, sessVars, cliVars>>

\* await window.showErrorMessage(errMsg) returns: the message was closed.
ErrorMessageClosed ==
    \E i \in 1..Len(invocations) :
        /\ invocations[i].pc = "showing"
        /\ invocations' = [invocations EXCEPT ![i].pc = "done", ![i].outcome = "completed"]
        /\ UNCHANGED <<outputChannel, errorMessages, dlVars, cfgVars, sessVars, cliVars>>

\* --------------------------------------------------- activate / deactivate
\* DidChangeConfigurationNotification with { settings: null }
NullSettings == "null"
DidChangeConfiguration(settings) ==
    [method |-> "workspace/didChangeConfiguration", settings |-> settings]

InitSessionIdle ==
    /\ activatePc = "none"
    /\ client = "undefined"
    /\ statusController = "undefined"
    /\ configurationListener = "undefined"
    /\ readyHook = "none"
    /\ clientListeners = FALSE
    /\ toWorker = <<>>
    /\ changes = 0
    /\ deactivations = 0
    /\ deactivated = FALSE

\* activate(context) is called and awaits fse.ensureDir(resourcesPath).
ActivateCall ==
    /\ activatePc = "none"
    /\ activatePc' = "ensureDir"
    /\ UNCHANGED <<client, statusController, configurationListener, readyHook,
                   clientListeners, toWorker, changes, deactivations, deactivated,
                   dlVars, cfgVars, cmdVars, cliVars>>

\* ensureDir throws: activate rejects before anything is created.
EnsureDirFails ==
    /\ activatePc = "ensureDir"
    /\ activatePc' = "failed"
    /\ UNCHANGED <<client, statusController, configurationListener, readyHook,
                   clientListeners, toWorker, changes, deactivations, deactivated,
                   dlVars, cfgVars, cmdVars, cliVars>>

\* Faulty variant: the configuration listener is installed at activation, not on
\* readiness.
ActivateRest_HooksAtOnce ==
    /\ activatePc = "ensureDir"
    /\ activatePc' = "done"
    /\ statusController' = "live"
    /\ readyHook' = "pending"
    /\ client' = "starting"
    /\ configurationListener' = "installed"
    /\ UNCHANGED <<clientListeners, toWorker, changes, deactivations,
                   deactivated, dlVars, cfgVars, cmdVars, cliVars>>

\* The rest of activate, after ensureDir: the status controller and the client are
\* created, the readiness callback is hooked, the commands are registered, and
\* client.start() is called.
ActivateRest ==
    /\ activatePc = "ensureDir"
    /\ activatePc' = "done"
    /\ statusController' = "live"
    /\ readyHook' = "pending"
    /\ client' = "starting"
    /\ UNCHANGED <<configurationListener, clientListeners, toWorker, changes, deactivations,
                   deactivated, dlVars, cfgVars, cmdVars, cliVars>>

\* The worker signals readiness: client.onReady() resolves and its callback runs
\* Configuration.initialize() and registerClientListener().  Nothing in deactivate
\* withdraws the callback, so it also runs when the client was stopped while
\* starting.
WorkerReady ==
    /\ readyHook = "pending"
    /\ readyHook' = "run"
    /\ client' = IF client = "starting" THEN "running" ELSE client
    /\ configurationListener' = "installed"
    /\ clientListeners' = TRUE
    /\ UNCHANGED <<activatePc, statusController, toWorker, changes, deactivations,
                   deactivated, dlVars, cfgVars, cmdVars, cliVars>>

\* The session as deactivate sees it.
Session == [client |-> client, statusController |-> statusController,
            configurationListener |-> configurationListener]

\* statusController.dispose(): releases the status-tracking resources; disposing
\* twice is the same as disposing once.
disposeStatusController(sc) == "disposed"

\* configurationListener.dispose()
disposeListener(l) == "disposed"

\* Faulty variant: no check that a client exists.
deactivate_Unguarded(st) ==
    IF st.client = "undefined" THEN [state |-> st, threw |-> TRUE]
    ELSE [state |-> [client |-> "stopped",
                     statusController |-> disposeStatusController(st.statusController),
                     configurationListener |-> disposeListener(st.configurationListener)],
          threw |-> FALSE]

\* deactivate(): the session it leaves, and whether it threw.
deactivate(st) ==
    IF st.client = "undefined" THEN [state |-> st, threw |-> FALSE]
    ELSE [state |->
            [client |-> "stopped",
             statusController |->
                IF st.statusController # "undefined"
                  THEN disposeStatusController(st.statusController)
                  ELSE st.statusController,
             configurationListener |->
                IF st.configurationListener # "undefined"
                  THEN disposeListener(st.configurationListener)
                  ELSE st.configurationListener],
          threw |-> FALSE]

\* deactivate() is called.
Deactivate ==
    /\ deactivations < MaxDeactivations
    /\ deactivations' = deactivations + 1
    /\ LET after == deactivate(Session).state IN
        /\ client' = after.client
        /\ statusController' = after.statusController
        /\ configurationListener' = after.configurationListener
    /\ deactivated' = (deactivated \/ client # "undefined")
    /\ UNCHANGED <<activatePc, readyHook, clientListeners, toWorker, changes,
                   dlVars, cfgVars, cmdVars, cliVars>>

\* The configuration store changes; the listener Configuration.initialize
\* installed, if still installed, notifies the worker.
ConfigChange ==
    /\ changes < MaxChanges
    /\ changes' = changes + 1
    /\ \E st \in Stores : st # store /\ store' = st
    /\ toWorker' = IF configurationListener = "installed"
                     THEN Append(toWorker, DidChangeConfiguration(NullSettings))
                     ELSE toWorker
    /\ UNCHANGED <<activatePc, client, statusController, configurationListener, readyHook,
                   clientListeners, deactivations, deactivated,
                   params, configResult, dlVars, cmdVars, cliVars>>

\* No worker task has run and nothing was dispatched to the controller.
NoTask == [n |-> 0, phase |-> "over", progress |-> 0, errors |-> 0]
InitClientIdle ==
    /\ workerTask = NoTask
    /\ inbox = <<>>
    /\ delivered = <<>>
    /\ statusHandler = 0
    /\ progress = <<>>
    /\ warnings = <<>>
    /\ prompts = <<>>
    /\ executed = <<>>

InitSess == InitDownloadIdle /\ InitConfigIdle /\ InitCommandIdle /\ InitSessionIdle /\ InitClientIdle
NextSess ==
    \/ ActivateCall
    \/ EnsureDirFails
    \/ ActivateRest
    \/ WorkerReady
    \/ Deactivate
    \/ ConfigChange
SpecSession == InitSess /\ [][NextSess]_vars

\* ------------------------------------------------- registerClientListener
\* The worker as the client sees it: what downloadCheckstyle puts on the channel
\* for one task after the other.  A task is a VersionInvalid, or a DownloadStart
\* followed by downloading and error statuses in any order and at most one
\* finished, which comes last.
Task(n) == [n |-> n, phase |-> "idle", progress |-> 0, errors |-> 0]
\* A notification in flight, with the task that sent it.
From(t, n) == [task |-> t, n |-> n]
\* The percentages of a transfer under way, and the link of the tasks' version.
Percents == {Percent(r) : r \in 1..ArtifactSize}
TaskLink == downloadLink(CHOOSE v \in Versions : TRUE)

handlerVars == <<delivered, statusHandler, progress, warnings, prompts, executed>>

\* downloadCheckstyle is invoked for the next task; the one before has returned
\* (it sent VersionInvalid or finished, or resolved false on an error).
WorkerNextTask ==
    /\ client = "running"
    /\ workerTask.n < MaxTasks
    /\ \/ workerTask.phase = "over"
       \/ workerTask.phase = "transfer" /\ workerTask.errors > 0
    /\ workerTask' = Task(workerTask.n + 1)
    /\ UNCHANGED <<inbox, handlerVars, dlVars, cfgVars, cmdVars, sessVars>>

\* connection.sendNotification(VersionInvalidNotification.notificationType, { uri })
SendVersionInvalid ==
    /\ workerTask.phase = "idle"
    /\ \E u \in Uris : inbox' = Append(inbox, From(workerTask.n, VersionInvalid(u)))
    /\ workerTask' = [workerTask EXCEPT !.phase = "over"]
    /\ UNCHANGED <<handlerVars, dlVars, cfgVars, cmdVars, sessVars>>

\* connection.sendNotification(DownloadStartNotification.notificationType)
SendDownloadStart ==
    /\ workerTask.phase = "idle"
    /\ inbox' = Append(inbox, From(workerTask.n, DownloadStart))
    /\ workerTask' = [workerTask EXCEPT !.phase = "transfer"]
    /\ UNCHANGED <<handlerVars, dlVars, cfgVars, cmdVars, sessVars>>

\* The 'progress' handler's sendNotification.
SendDownloading ==
    /\ workerTask.phase = "transfer"
    /\ workerTask.progress < MaxProgress
    /\ \E p \in Percents : inbox' = Append(inbox, From(workerTask.n, Downloading(p)))
    /\ workerTask' = [workerTask EXCEPT !.progress = @ + 1]
    /\ UNCHANGED <<handlerVars, dlVars, cfgVars, cmdVars, sessVars>>

\* The 'error' handler's sendNotification.
SendError ==
    /\ workerTask.phase = "transfer"
    /\ workerTask.errors < MaxErrors
    /\ \E err \in StreamErrors :
        inbox' = Append(inbox, From(workerTask.n, DownloadError(ErrorCause(err), TaskLink)))
    /\ workerTask' = [workerTask EXCEPT !.errors = @ + 1]
    /\ UNCHANGED <<handlerVars, dlVars, cfgVars, cmdVars, sessVars>>

\* The 'end' handler's sendNotification, after its rename.
SendFinished ==
    /\ workerTask.phase = "transfer"
    /\ inbox' = Append(inbox, From(workerTask.n, Finished))
    /\ workerTask' = [workerTask EXCEPT !.phase = "over"]
    /\ UNCHANGED <<handlerVars, dlVars, cfgVars, cmdVars, sessVars>>

\* What `sent` may hold at any moment of one invocation: the language the worker
\* above speaks.
RECURSIVE CountIn(_, _)
CountIn(seq, st) ==
    IF seq = <<>> THEN 0
    ELSE (IF seq[1].method = "checkstyle/downloadStatus" /\ seq[1].status = st THEN 1 ELSE 0)
            + CountIn(Tail(seq), st)
SentIsATask ==
    \/ sent = <<>>
    \/ sent = <<ShowMessageError>>
    \/ \E u \in Uris : sent = <<VersionInvalid(u)>>
    \/ /\ sent[1] = DownloadStart
       /\ \A i \in 2..Len(sent) :
            /\ sent[i].method = "checkstyle/downloadStatus"
            /\ sent[i].status = "finished" => i = Len(sent)
       /\ CountIn(sent, "error") <= MaxErrors
       /\ CountIn(sent, "downloading") <= MaxProgress

\* The text p.report is given for a downloading status.
ReportText(percent) == <<"Downloading checkstyle... ", percent, "%">>
FetchingText == <<"Fetching the download link...">>
Indicator(t) == [task |-> t, state |-> "open", reports |-> <<FetchingText>>]
\* resolve() / reject(e) of the promise an indicator waits for: settles it once.
Close(inds, k, how) ==
    IF inds[k].state = "open" THEN [inds EXCEPT ![k].state = how] ELSE inds

\* The client dispatches the next DownloadStart: withProgress opens an indicator
\* and its task registers a DownloadStatus handler; client.onNotification keeps
\* one handler per method, so the handler registered before is replaced.
OnDownloadStart ==
    /\ clientListeners
    /\ inbox # <<>>
    /\ Head(inbox).n.method = "checkstyle/downloadStart"
    /\ inbox' = Tail(inbox)
    /\ delivered' = Append(delivered, Head(inbox))
    /\ progress' = Append(progress, Indicator(Head(inbox).task))
    /\ statusHandler' = Len(progress) + 1
    /\ UNCHANGED <<workerTask, warnings, prompts, executed,
                   dlVars, cfgVars, cmdVars, sessVars>>

\* The client dispatches the next DownloadStatus to the registered handler, which
\* is never taken off: it reports, resolves, or shows the warning and awaits it.
\* A status follows its task's DownloadStart on the channel, so a handler is
\* registered whenever one is dispatched.
OnDownloadStatus ==
    /\ clientListeners
    /\ inbox # <<>>
    /\ Head(inbox).n.method = "checkstyle/downloadStatus"
    /\ statusHandler # 0
    /\ inbox' = Tail(inbox)
    /\ delivered' = Append(delivered, Head(inbox))
    /\ LET param == Head(inbox).n
           k == statusHandler
       IN CASE param.status = "downloading" ->
                 /\ progress' = IF progress[k].state = "open"
                                  THEN [progress EXCEPT ![k].reports =
                                            Append(@, ReportText(param.percent))]
                                  ELSE progress
                 /\ UNCHANGED warnings
            [] param.status = "finished" ->
                 /\ progress' = Close(progress, k, "resolved")
                 /\ UNCHANGED warnings
            [] param.status = "error" ->
                 /\ warnings' = Append(warnings, [indicator |-> k, open |-> TRUE])
                 /\ UNCHANGED progress
    /\ UNCHANGED <<workerTask, statusHandler, prompts, executed,
                   dlVars, cfgVars, cmdVars, sessVars>>

\* await window.showWarningMessage(getErrorMessage(param.error)) returns: the
\* warning was closed, reject(param.error) follows.
WarningClosed ==
    \E w \in 1..Len(warnings) :
        /\ warnings[w].open
        /\ warnings' = [warnings EXCEPT ![w].open = FALSE]
        /\ progress' = Close(progress, warnings[w].indicator, "rejected")
        /\ UNCHANGED <<workerTask, inbox, delivered, statusHandler, prompts, executed,
                       dlVars, cfgVars, cmdVars, sessVars>>

\* The client dispatches the next VersionInvalid: the handler shows the prompt
\* and awaits the answer.
OnVersionInvalid ==
    /\ clientListeners
    /\ inbox # <<>>
    /\ Head(inbox).n.method = "checkstyle/versionInvalid"
    /\ inbox' = Tail(inbox)
    /\ delivered' = Append(delivered, Head(inbox))
    /\ prompts' = Append(prompts, [uri |-> Head(inbox).n.uri, answer |-> "open"])
    /\ UNCHANGED <<workerTask, statusHandler, progress, warnings, executed,
                   dlVars, cfgVars, cmdVars, sessVars>>

\* What the user may do with the prompt: pick an item, or dismiss it (undefined).
Answers == {"yes", "cancel", "dismissed"}

\* Faulty variant: any item picked runs the command.
AfterPrompt_AnyItem(answer, uri, i) ==
    IF answer # "dismissed"
      THEN <<[command |-> "checkstyle.setVersion", arg |-> asUri(uri), prompt |-> i]>>
      ELSE <<>>

\* if (result === DialogResponses.yes) commands.executeCommand('checkstyle.setVersion', asUri(param.uri))
AfterPrompt(answer, uri, i) ==
    IF answer = "yes"
      THEN <<[command |-> "checkstyle.setVersion", arg |-> asUri(uri), prompt |-> i]>>
      ELSE <<>>

\* The prompt is answered and the VersionInvalid handler resumes.
PromptAnswered ==
    \E i \in 1..Len(prompts), answer \in Answers :
        /\ prompts[i].answer = "open"
        /\ prompts' = [prompts EXCEPT ![i].answer = answer]
        /\ executed' = executed \o AfterPrompt(answer, prompts[i].uri, i)
        /\ UNCHANGED <<workerTask, inbox, delivered, statusHandler, progress, warnings,
                       dlVars, cfgVars, cmdVars, sessVars>>

\* The session after activate: the client is starting, readiness is awaited.
InitSessionStarting ==
    /\ activatePc = "done"
    /\ client = "starting"
    /\ statusController = "live"
    /\ configurationListener = "undefined"
    /\ readyHook = "pending"
    /\ clientListeners = FALSE
    /\ toWorker = <<>>
    /\ changes = 0
    /\ deactivations = 0
    /\ deactivated = FALSE

InitCli == InitDownloadIdle /\ InitConfigIdle /\ InitCommandIdle /\ InitSessionStarting
            /\ InitClientIdle
NextCli ==
    \/ WorkerReady
    \/ WorkerNextTask
    \/ SendVersionInvalid
    \/ SendDownloadStart
    \/ SendDownloading
    \/ SendError
    \/ SendFinished
    \/ OnDownloadStart
    \/ OnDownloadStatus
    \/ WarningClosed
    \/ OnVersionInvalid
    \/ PromptAnswered
SpecClient == InitCli /\ [][NextCli]_vars

InitCmd == InitDownloadIdle /\ InitConfigIdle /\ InitCommandIdle /\ InitSessionIdle /\ InitClientIdle
NextCmd ==
    \/ RunCommand
    \/ CallbackReturns
    \/ CallbackThrows
    \/ ErrorMessageClosed
SpecCommand == InitCmd /\ [][NextCmd]_vars

InitCfg == InitDownloadIdle /\ InitConfig /\ InitCommandIdle /\ InitSessionIdle /\ InitClientIdle
NextCfg == ComputeConfiguration
SpecConfig == InitCfg /\ [][NextCfg]_vars

Init == InitDownload /\ InitConfigIdle /\ InitCommandIdle /\ InitSessionIdle /\ InitClientIdle

Next ==
    \/ Invoke
    \/ ProbeCallback
    \/ CheckTempFile
    \/ RemoveTempFileOk
    \/ RemoveTempFileFail
    \/ OpenWriteStream
    \/ OnData
    \/ FlushWrite
    \/ OnProgress
    \/ OnError
    \/ OnEnd
    \/ RenameOk
    \/ RenameFail
    \/ EndFinished

Spec == Init /\ [][Next]_vars

\* ================================================================= claims
IsStatus(n, st) == n.method = "checkstyle/downloadStatus" /\ n.status = st
IsTerminal(n) == IsStatus(n, "finished") \/ IsStatus(n, "error")
IsDownloadStatus(n) == n.method = "checkstyle/downloadStatus"
Sent(n) == \E i \in 1..Len(sent) : sent[i] = n
Terminals == {i \in 1..Len(sent) : IsTerminal(sent[i])}
Starts == {i \in 1..Len(sent) : sent[i] = DownloadStart}
\* The probe answered 302 without a transport error.
ProbeFound ==
    probe.done /\ ~probe.error /\ probe.response.present
        /\ probe.response.statusCode = HttpFound
\* The stream has delivered its 'end' and the 'end' handler has run as far as it
\* ever will.
TransferOver == ended /\ endPc \in {"done", "threw"}

\* C1: for an invocation whose probe is classified as found, exactly one terminal
\* DownloadStatus (finished or error) is emitted: never two, and, once the transfer
\* is over, not none, whatever the stream delivers and whether or not the rename
\* succeeds.
C1_ExactlyOneTerminal ==
    ProbeFound =>
        /\ Cardinality(Terminals) <= 1
        /\ TransferOver => Cardinality(Terminals) = 1

\* C2: within a task, one DownloadStart comes first, then the downloading statuses,
\* then the terminal status: no DownloadStatus before DownloadStart, and no
\* downloading status after a terminal one.
C2_NotificationOrder ==
    /\ Cardinality(Starts) <= 1
    /\ \A i \in 1..Len(sent) :
        IsDownloadStatus(sent[i]) => \E k \in 1..(i - 1) : sent[k] = DownloadStart
    /\ \A i \in 1..Len(sent) : \A j \in (i + 1)..Len(sent) :
        IsTerminal(sent[i]) => ~IsStatus(sent[j], "downloading")

\* C3: when no file was at the final artifact path at invocation, the final path
\* at every moment either does not exist or holds the complete artifact, never a
\* partially written file.
C3_NoPartialFinalFile ==
    ~finalAtStart.exists => (~finalFile.exists \/ Complete(finalFile))

\* C4: whenever 'finished' has been emitted, the temp file no longer exists and
\* the final artifact file exists: the rename completed before 'finished' was sent
\* and before the operation resolved to true.
C4_FinishedAfterRename ==
    /\ Sent(Finished) => (~tempFile.exists /\ finalFile.exists)
    /\ result = "true" => Sent(Finished)
C4_Witness == Sent(Finished) /\ result = "true" /\ finalFile.exists

\* C5: a temp file that exists at invocation is removed before DownloadStart is
\* emitted and before any byte of the new stream is written: once DownloadStart is
\* sent no stale byte is in the temp file, no temp file exists until the new write
\* stream creates it, and the file the new stream writes holds exactly the chunks
\* flushed from the new transfer.
C5_StaleTempRemovedFirst ==
    (tempAtStart.exists /\ Sent(DownloadStart)) =>
        /\ \A i \in 1..Len(tempFile.bytes) : tempFile.bytes[i] # StaleByte
        /\ wsState = "opening" => ~tempFile.exists
        /\ wsState = "open" => FileAt(fdPath).bytes = SubSeq(Artifact, 1, written)
C5_Witness ==
    /\ tempAtStart.exists /\ Sent(DownloadStart)
    /\ wsState = "open" /\ fdPath = "temp" /\ written > 0

\* C6: a probe response without transport error and with a status code other than
\* 302 makes downloadCheckstyle emit exactly one VersionInvalid, carrying the
\* requesting document's uri, and nothing else (no DownloadStart, no
\* DownloadStatus), and return false.
C6_InvalidVersion ==
    (probe.done /\ ~probe.error /\ probe.response.present
        /\ probe.response.statusCode # HttpFound) =>
        /\ sent = <<VersionInvalid(textDocumentUri)>>
        /\ result = "false"
        /\ pc = "done"
C6_Witness ==
    /\ probe.done /\ ~probe.error /\ probe.response.present
    /\ probe.response.statusCode = 200
    /\ sent = <<VersionInvalid(textDocumentUri)>>

\* C7: a probe that yields no response, or a transport error (with or without a
\* response object), makes downloadCheckstyle send exactly one 'try again later'
\* error message and nothing else (no VersionInvalid, no DownloadStart, no
\* DownloadStatus), and return false.
C7_TransportError ==
    (probe.done /\ (probe.error \/ ~probe.response.present)) =>
        /\ sent = <<ShowMessageError>>
        /\ result = "false"
        /\ pc = "done"
C7_Witness ==
    /\ probe.done /\ probe.error /\ probe.response.present
    /\ probe.response.statusCode = HttpFound
    /\ sent = <<ShowMessageError>>

\* C8: every invocation settles by resolving to a boolean, never by rejecting, and
\* is not left pending once the probe and the transfer stream have terminated.
C8_AlwaysResolvesBoolean ==
    /\ result # "rejected"
    /\ (pc = "done" \/ TransferOver) => result \in {"true", "false"}

\* ------------------------------------------------------ computeConfiguration
Answered == configResult # Pending
\* The query's number of items: none when params.items is missing.
N == IF params.hasItems THEN Len(params.items) ELSE 0

\* C9 as written: the result is null exactly when the query has no items (items
\* missing, or an empty item sequence), otherwise an array of exactly N elements,
\* element i being the answer for item i.
C9_NullIffNoItems ==
    Answered =>
        /\ configResult.kind = "null" <=> N = 0
        /\ configResult.kind = "array" =>
            /\ Len(configResult.elems) = N
            /\ \A i \in 1..N :
                configResult.elems[i].kind = "null" <=> Truthy(params.items[i].section)

\* C9 amended: the result is null exactly when params.items is missing; for an item
\* sequence of N >= 0 elements, the empty one included, it is an array of exactly N
\* elements, element i being the answer for item i.
C9_NullIffItemsMissing ==
    Answered =>
        /\ configResult.kind = "null" <=> ~params.hasItems
        /\ configResult.kind = "array" =>
            /\ Len(configResult.elems) = N
            /\ \A i \in 1..N :
                configResult.elems[i].kind = "null" <=> Truthy(params.items[i].section)
C9_Witness ==
    /\ Answered /\ params.hasItems /\ N = 2
    /\ Truthy(params.items[1].section) /\ ~Truthy(params.items[N].section)
    /\ Len(configResult.elems) = N

\* The settings record the store yields for a scope, with the defaults of the
\* resolver for what the scope leaves unset.
Default(opt, d) == IF opt.set THEN opt.value ELSE d
Expected(scope) ==
    [kind |-> "settings",
     autocheck |-> Default(store[scope].autocheck, "false"),
     version |-> Default(store[scope].version, "8.0"),
     configurationFile |-> Default(store[scope].configurationFile, "google_checks"),
     propertiesPath |-> Default(store[scope].propertiesPath, Undefined)]

\* C10: the element at the index of an item with a non-empty section is null,
\* whatever its scopeUri; the element of an item without a section is a non-null
\* settings record, resolved for the item's scopeUri when it has one (a non-empty
\* one) and for the workspace-global scope otherwise.
C10_ElementPerItem ==
    (Answered /\ params.hasItems) =>
        /\ Len(configResult.elems) = Len(params.items)
        /\ \A i \in 1..Len(params.items) :
            LET item == params.items[i]
                elem == configResult.elems[i]
            IN IF item.section # Undefined /\ item.section # ""
                 THEN elem.kind = "null"
                 ELSE /\ elem.kind = "settings"
                      /\ elem = IF item.scopeUri # Undefined /\ item.scopeUri # ""
                                  THEN Expected(<<"resource", item.scopeUri>>)
                                  ELSE Expected(WorkspaceScope)
C10_Witness ==
    /\ Answered /\ params.hasItems /\ Len(params.items) = 2
    /\ params.items[1].section = "java" /\ params.items[1].scopeUri = "file:///a"
    /\ params.items[2].section = Undefined /\ params.items[2].scopeUri = "file:///b"
    /\ store[asUri("file:///b")].version.set
    /\ ~store[WorkspaceScope].version.set
    /\ configResult.elems[2].version = store[asUri("file:///b")].version.value

\* ------------------------------------------------- downloadCheckstyle, frame
\* The probe ended in anything but a 302 without transport error.
ProbeNotFound ==
    probe.done /\ (probe.error \/ ~probe.response.present
                     \/ probe.response.statusCode # HttpFound)

\* C17: when the probe is classified as invalid or transportError no download is
\* attempted and the destination directory is left as it was: a temp file that was
\* there is still there, none is created, and the final artifact path is not
\* created, renamed or modified.
C17_NoDownloadNoFileChange ==
    ProbeNotFound =>
        /\ tempFile = tempAtStart
        /\ finalFile = finalAtStart
        /\ wsState = "none"
        /\ endPc = "none"
        /\ ~Sent(DownloadStart)
C17_Witness ==
    /\ ProbeNotFound /\ pc = "done"
    /\ tempAtStart = StaleTemp /\ tempFile = StaleTemp

\* The last DownloadStatus{error} on the channel.
ErrorsSent == {i \in 1..Len(sent) : IsStatus(sent[i], "error")}

\* C18: once the stream has reported an error, a DownloadStatus{error} carrying
\* the classified cause and the download link has been emitted and the operation
\* resolves to false; the temp file is neither renamed to the final filename nor
\* deleted, and no 'finished' status and no rename follow in the same task.
C18_ErrorIsFinal ==
    errorCount > 0 =>
        /\ \E i \in ErrorsSent :
            /\ sent[i].cause \in {ErrorCause(e) : e \in StreamErrors}
            /\ sent[i].link = downloadLink(version)
        /\ result = "false"
        /\ ~Sent(Finished)
        /\ endPc \notin {"renamed", "done"}
        /\ finalFile = finalAtStart

\* ------------------------------------------------------------ initCommand
Appended(i) == {k \in 1..Len(outputChannel) : outputChannel[k].run = i}
Shown(i) == {k \in 1..Len(errorMessages) : errorMessages[k].run = i}
Cancelled(i) == invocations[i].thrown.kind = "UserCancelledError"
\* The callback of run i failed with something that is not the sentinel.
Failed(i) == invocations[i].thrown.kind \notin {"none", "UserCancelledError"}

\* C11: a command whose callback raises the user-cancelled sentinel appends nothing
\* to the output channel, shows no error message, and completes normally.
C11_CancelIsSilent ==
    \A i \in 1..Len(invocations) :
        Cancelled(i) =>
            /\ Appended(i) = {}
            /\ Shown(i) = {}
            /\ invocations[i].pc = "done"
            /\ invocations[i].outcome = "completed"
C11_Witness ==
    /\ Len(invocations) = 2
    /\ Cancelled(1) /\ invocations[1].outcome = "completed"
    /\ Failed(2) /\ Appended(2) # {} /\ Shown(2) # {}

\* C16: a command whose callback fails with anything but the sentinel appends the
\* failure once to the output channel and shows it once as an error message, both
\* with the same text "Checkstyle Error: - '<message>'", and the failure does not
\* leave the command invocation.
C16_FailureLoggedAndShown ==
    \A i \in 1..Len(invocations) :
        Failed(i) =>
            /\ invocations[i].outcome # "threw"
            /\ Cardinality(Appended(i)) = 1
            /\ Cardinality(Shown(i)) = 1
            /\ \A k \in Appended(i), m \in Shown(i) :
                /\ outputChannel[k].text = errorMessages[m].text
                /\ Len(outputChannel[k].text) = 3
                /\ outputChannel[k].text[1] = "Checkstyle Error: - '"
                /\ outputChannel[k].text[3] = "'"

\* --------------------------------------------------- activate / deactivate
\* C13: once deactivate has run on a started session, whatever the interleaving
\* of activate, the worker's readiness signal and deactivate, no
\* configuration-change listener is installed, the status tracker is disposed and
\* the channel is stopped, so that a later configuration change notifies nobody.
C13_TornDownAfterDeactivate ==
    deactivated =>
        /\ configurationListener # "installed"
        /\ statusController = "disposed"
        /\ client = "stopped"

Ready == readyHook = "run" /\ client = "running"

\* C15: while the session is ready, each change of the configuration store sends
\* the worker one configuration-changed notification with { settings: null };
\* a change before the worker has signalled readiness sends none.
C15_ChangeNotifiesWhenReady ==
    [][changes' # changes =>
         /\ Ready => toWorker' = Append(toWorker, [method |-> "workspace/didChangeConfiguration",
                                                   settings |-> "null"])
         /\ readyHook # "run" => toWorker' = toWorker]_vars
C15_Witness ==
    /\ Ready
    /\ changes = 2
    /\ toWorker = <<[method |-> "workspace/didChangeConfiguration", settings |-> "null"]>>

\* A terminal status of task t has been dispatched to the controller.
TerminalDelivered(t) ==
    \E i \in 1..Len(delivered) : delivered[i].task = t /\ IsTerminal(delivered[i].n)
StatusDelivered(t, st) ==
    \E i \in 1..Len(delivered) : delivered[i].task = t /\ IsStatus(delivered[i].n, st)

\* C12: once a terminal DownloadStatus of a task has been received, the
\* DownloadStatus listener registered for that task is no longer registered.
C12_ListenerDetachedAtTerminal ==
    \A k \in 1..Len(progress) :
        TerminalDelivered(progress[k].task) => statusHandler # k

IsVersionInvalid(d) == d.n.method = "checkstyle/versionInvalid"
InvalidsDelivered == SelectSeq(delivered, IsVersionInvalid)
Executions(i) == {j \in 1..Len(executed) : executed[j].prompt = i}
AnsweredYes == {i \in 1..Len(prompts) : prompts[i].answer = "yes"}

\* C19: each VersionInvalid received shows one prompt; checkstyle.setVersion is
\* executed exactly once, with that notification's uri, for a prompt answered
\* yes, and no command is executed for a prompt cancelled, dismissed or open.
C19_PromptedSetVersion ==
    /\ Len(prompts) = Len(InvalidsDelivered)
    /\ Len(executed) = Cardinality(AnsweredYes)
    /\ \A i \in 1..Len(prompts) :
        /\ prompts[i].uri = InvalidsDelivered[i].n.uri
        /\ i \in AnsweredYes =>
            /\ Cardinality(Executions(i)) = 1
            /\ \A j \in Executions(i) :
                /\ executed[j].command = "checkstyle.setVersion"
                /\ executed[j].arg = <<"resource", InvalidsDelivered[i].n.uri>>
        /\ i \notin AnsweredYes => Executions(i) = {}
C19_Witness ==
    /\ Len(prompts) = 2
    /\ prompts[1].answer = "cancel"
    /\ prompts[2].answer = "yes"
    /\ prompts[1].uri # prompts[2].uri
    /\ Len(executed) = 1

IsDownloadingOf(t, d) == d.task = t /\ IsStatus(d.n, "downloading")
RECURSIVE ReportsFor(_, _)
ReportsFor(t, ds) ==
    IF ds = <<>> THEN <<>>
    ELSE (IF IsDownloadingOf(t, ds[1]) THEN <<ReportText(ds[1].n.percent)>> ELSE <<>>)
            \o ReportsFor(t, Tail(ds))

\* C20: the indicator opened for a DownloadStart has reported every downloading
\* status received for its task, in order, and it is closed as the task's
\* terminal status says: it is not open once finished was received, resolved
\* only for a task that sent no error, rejected only for a task that sent no
\* finished.
C20_IndicatorFollowsTask ==
    \A k \in 1..Len(progress) :
        LET t == progress[k].task IN
        /\ progress[k].reports = <<FetchingText>> \o ReportsFor(t, delivered)
        /\ StatusDelivered(t, "finished") => progress[k].state # "open"
        /\ progress[k].state = "resolved" =>
                StatusDelivered(t, "finished") /\ ~StatusDelivered(t, "error")
        /\ progress[k].state = "rejected" =>
                StatusDelivered(t, "error") /\ ~StatusDelivered(t, "finished")

====
